---- MODULE Spec2Model ----
(***************************************************************************)
(* Video recorder with local backup: the IndexedDB record store            *)
(* (videoStorage.ts), the recorder hook's save path (useVideoRecorder) and *)
(* the page's upload / delete / reload handlers (page.tsx).                *)
(*                                                                         *)
(* JavaScript runs one handler at a time; every await suspends the handler *)
(* and its continuation runs as a later step.  IndexedDB runs the          *)
(* transactions of one object store in the order they were created, so the *)
(* pending transactions form the queue txq; open requests form openq.      *)
(***************************************************************************)
EXTENDS Integers, Sequences, FiniteSets, TLC

(* ------------------------------ bounds --------------------------------- *)
MaxTime == 1
MaxChunks == 1
MaxEvents == 4
MaxUploads == 2
MaxDuration == 1
MaxBytes == 1

Times == 0..MaxTime
\* Math.random()'s suffix, abstracted to one value: two ids collide when their
\* Date.now() agree.
Rnds == {1}
\* event.data of a dataavailable event: empty, or one byte
ChunkData == {<<>>, <<1>>}
Slots == 1..MaxUploads
\* the startRecording calls a page can hold: each one is a user event
Sessions == 1..MaxEvents
\* the byte counts navigator.storage.estimate() can report
Bytes == 0..MaxBytes

NoId == <<>>
\* a ref's null
NoSession == 0

VARIABLES
  store,           \* the 'videos' object store: the committed StoredVideo records
  commitFaults,    \* whether the platform may abort a transaction at commit time
  capture,         \* the platform's capture devices: whether getUserMedia
                   \* stays pending long enough for another click (prompts: the
                   \* permission prompt is open) and whether MediaRecorder
                   \* supports the container asked for (webm)
  db,              \* VideoStorageService.db: "null" or "open"
  openq,           \* calls awaiting their indexedDB.open request, oldest first
  txq,             \* transactions created and not yet run, oldest first
  recordingState,  \* useVideoRecorder: 'idle' | 'recording' | 'stopped' | 'saving'
  sessions,        \* the startRecording calls, by slot: where the call or
                   \* its MediaRecorder is (pc), whether the tracks of its
                   \* MediaStream are live, whether its interval is set
  streamRef,       \* streamRef.current: a session, or NoSession
  mediaRecorderRef,     \* mediaRecorderRef.current, while that recorder can
                        \* still be stopped; else NoSession
  durationIntervalRef,  \* durationIntervalRef.current: a session, or NoSession
  duration,        \* the hook's duration, in ticks
  recordedVideoUrl,     \* {} when null, else {the blob the URL was made for}
  chunks,          \* chunksRef.current
  recordedVideoId, \* NoId when null
  recorderError,   \* the hook's error: "" when null
  storedVideos,    \* the page's list, as last loaded
  uploadProgress,  \* the page's [status, progress]
  uploadMode,      \* 'mock' | 'real' | 'force-fail'
  ups,             \* the handleUpload calls in flight, by slot
  deleted,         \* history: ids whose deleteVideo has completed
  outcomes,        \* history: <<id, how>> for every strategy result handed to
                   \* handleUpload ("success" | "failed") and every
                   \* markAsUploaded that threw ("not-found")
  events,          \* number of user events so far (bounded by MaxEvents)
  navigatorStorage,     \* what navigator.storage.estimate will do at the
                        \* next call
  estimate,        \* the getStorageEstimate call of loadStorageInfo
  storageInfo      \* the page's storageInfo: {} when null

\* the hook's refs and what they point to, with duration and the playback URL
recorder == <<sessions, streamRef, mediaRecorderRef, durationIntervalRef,
              duration, recordedVideoUrl>>
\* loadStorageInfo
estimation == <<navigatorStorage, estimate, storageInfo>>

vars == <<store, commitFaults, capture, db, openq, txq, recordingState, recorder,
          chunks, recordedVideoId, recorderError, storedVideos, uploadProgress,
          uploadMode, ups, deleted, outcomes, events, estimation>>

(* ------------------------- the object store ---------------------------- *)
\* `video_${Date.now()}_${Math.random().toString(36).substr(2, 9)}`
VideoId(now, rnd) == <<now, rnd>>

\* `recording_${new Date().toISOString().split('T')[0]}.webm`: the date of `now`
FileName(now) == <<"recording", now, "webm">>

\* new Blob(chunksRef.current): the chunks' bytes, concatenated
RECURSIVE MakeBlob(_)
MakeBlob(cs) == IF cs = <<>> THEN <<>> ELSE Head(cs) \o MakeBlob(Tail(cs))

NewVideo_uploaded(blob, now, rnd) ==
  [id |-> VideoId(now, rnd), blob |-> blob, timestamp |-> now,
   uploaded |-> TRUE, fileName |-> FileName(now)]
NewVideo_noBlob(blob, now, rnd) ==
  [id |-> VideoId(now, rnd), blob |-> <<>>, timestamp |-> now,
   uploaded |-> FALSE, fileName |-> FileName(now)]
NewVideo(blob, now, rnd) ==
  [id |-> VideoId(now, rnd), blob |-> blob, timestamp |-> now,
   uploaded |-> FALSE, fileName |-> FileName(now)]

HasKey(s, id) == \E v \in s : v.id = id

\* store.get(id): request.result, as the set of at most one record
Get_blank(s, id) ==
  IF HasKey(s, id) THEN {v \in s : v.id = id}
  ELSE {[id |-> id, blob |-> <<>>, timestamp |-> 0, uploaded |-> FALSE,
         fileName |-> FileName(0)]}
Get(s, id) == {v \in s : v.id = id}

\* store.add(video): a ConstraintError (request.onerror) when the key is
\* present, else the record is added (request.onsuccess)
AddRequest_put(s, video) ==
  [ok |-> TRUE, store |-> {v \in s : v.id # video.id} \cup {video}]
AddRequest(s, video) ==
  IF HasKey(s, video.id) THEN [ok |-> FALSE, store |-> s]
  ELSE [ok |-> TRUE, store |-> s \cup {video}]

\* store.put(video): insert or replace by key
Put(s, video) == {v \in s : v.id # video.id} \cup {video}

\* store.delete(id): succeeds whether or not the key is present
Delete_nothing(s, id) == s
Delete(s, id) == {v \in s : v.id # id}

\* markAsUploaded: video.uploaded = true
MarkVideo_noflag(video) == video
MarkVideo_toggle(video) == [video EXCEPT !.uploaded = ~video.uploaded]
MarkVideo(video) == [video EXCEPT !.uploaded = TRUE]

KeyLess(a, b) == a[1] < b[1] \/ (a[1] = b[1] /\ a[2] < b[2])

\* store.getAll(): the records in key order
RECURSIVE GetAll(_)
GetAll(s) ==
  IF s = {} THEN <<>>
  ELSE LET v == CHOOSE x \in s : \A y \in s : y.id = x.id \/ KeyLess(x.id, y.id)
       IN <<v>> \o GetAll(s \ {v})

(* ------------------------- calls and transactions ---------------------- *)
\* A store call: op is the request it will make, k the continuation that
\* awaits it (u: the handleUpload call it belongs to, 0 when none).
Call(op, k, id, blob, video, u) ==
  [op |-> op, k |-> k, id |-> id, blob |-> blob, video |-> video, u |-> u]

SaveCall(blob) == Call("add", "onstop", NoId, blob, {}, 0)
LoadCall == Call("getAll", "load", NoId, <<>>, {}, 0)
DeleteCall(id) == Call("delete", "delete", id, <<>>, {}, 0)

\* The transaction a call creates once db is set: saveVideo draws its id and
\* timestamp (Date.now(), Math.random()) at that point, after the await of init.
Txn(c, now, rnd) ==
  IF c.op = "add" THEN [c EXCEPT !.video = {NewVideo(c.blob, now, rnd)},
                                 !.id = VideoId(now, rnd)]
  ELSE c

RECURSIVE Txns(_, _, _)
Txns(cs, now, rnd) ==
  IF cs = <<>> THEN <<>> ELSE <<Txn(Head(cs), now, rnd)>> \o Txns(Tail(cs), now, rnd)

\* `if (!this.db) await this.init()` and then the transaction: the calls cs,
\* started in this order, with q the transactions still queued before them.
StartCalls(q, cs, now, rnd) ==
  IF db = "null"
  THEN /\ openq' = openq \o cs
       /\ txq' = q
  ELSE /\ openq' = openq
       /\ txq' = q \o Txns(cs, now, rnd)

\* Whether the transaction of a successful write request commits.
CommitOutcomes == IF commitFaults THEN {TRUE, FALSE} ELSE {TRUE}

(* ------------------------------ uploads -------------------------------- *)
MockStep == 10
MockLast == 100
FailStep == 20
FailLast == 60
RealProgress == 50
FullProgress == 100

\* A handleUpload call: its position, arguments, the mode it read, its
\* strategy's loop counter and result; notes is the history of the progress
\* notifications it has emitted (its setUploadProgress calls, in order) and
\* retry tells whether an upload of the same id had failed before it started;
\* error is the message of the error realUpload caught ("" when none).
FreeUpload ==
  [pc |-> "free", id |-> NoId, blob |-> <<>>, mode |-> "mock", i |-> 0,
   ok |-> FALSE, notes |-> <<>>, retry |-> FALSE, error |-> ""]

FreeSlots == {u \in Slots : ups[u].pc = "free"}
NextSlot == CHOOSE u \in FreeSlots : \A w \in FreeSlots : u <= w

Progress(status, progress) == [status |-> status, progress |-> progress]
IdleProgress == Progress("idle", 0)

\* handleUpload's first notification: 'Starting upload...'
StartNote == Progress("uploading", 0)

\* realUpload's one progress point, before fetch
RealNote == Progress("uploading", RealProgress)

\* the loop's notification at counter i: 'Uploading... i%'
LoopNote_remaining(i) == Progress("uploading", FullProgress - i)
LoopNote(i) == Progress("uploading", i)

\* the strategy's last notification, from its result
Terminal_success(ok) == Progress("success", FullProgress)
Terminal(ok) ==
  IF ok THEN Progress("success", FullProgress) ELSE Progress("failed", 0)

\* what a strategy emits when it finishes: its terminal notification
FinalNotes_twice(ok) == <<Terminal(ok), Terminal(ok)>>
FinalNotes(ok) == <<Terminal(ok)>>

\* the results a loop strategy can return: mockUpload draws shouldSucceed,
\* forceFailUpload has success: false only
LoopResults_random(mode) == BOOLEAN
LoopResults(mode) == IF mode = "mock" THEN BOOLEAN ELSE {FALSE}

\* indexedDB.open(DB_NAME, DB_VERSION): onupgradeneeded creates the object
\* store only when it does not exist, so an existing store keeps its records.
OpenStore_recreate(s) == {}
OpenStore(s) == s

\* handleUpload: `if (result.success)` guards markAsUploaded
ShouldMark_always(ok) == TRUE
ShouldMark_never(ok) == FALSE
ShouldMark(ok) == ok

(* ------------------------------- state --------------------------------- *)
\* A startRecording call that is not there.
FreeSession == [pc |-> "free", live |-> FALSE, ticking |-> FALSE]

\* The capture platforms.  Granted is the one where permission was decided
\* before (getUserMedia settles at once) and webm is supported.
Captures == [prompts : BOOLEAN, webm : BOOLEAN]
Granted == [prompts |-> FALSE, webm |-> TRUE]

\* getStorageEstimate's call: not made, awaiting estimate(), or settled
NoEstimate == [pc |-> "none", usage |-> 0, quota |-> 0]

\* What navigator.storage.estimate can do: it is not there, it rejects, or
\* it resolves with a StorageEstimate, whose usage and quota are optional
\* ({} when undefined).
Optional(S) == {{}} \cup {{x} : x \in S}
Platform(api, usage, quota) == [api |-> api, usage |-> usage, quota |-> quota]
Absent == Platform("absent", {}, {})
Platforms ==
  {Absent, Platform("rejects", {}, {})} \cup
  {Platform("resolves", u, q) : u \in Optional(Bytes), q \in Optional(Bytes)}

InitWith(records, faults, n, platforms, captures) ==
  /\ store = records
  /\ commitFaults = faults
  /\ capture \in captures
  /\ db = "null"
  /\ openq = <<LoadCall>>          \* the mount effect's loadStoredVideos
  /\ txq = <<>>
  /\ recordingState = "idle"
  /\ sessions = [s \in Sessions |-> FreeSession]
  /\ streamRef = NoSession
  /\ mediaRecorderRef = NoSession
  /\ durationIntervalRef = NoSession
  /\ duration = 0
  /\ recordedVideoUrl = {}
  /\ chunks = <<>>
  /\ recordedVideoId = NoId
  /\ recorderError = ""
  /\ storedVideos = <<>>
  /\ uploadProgress = IdleProgress
  /\ uploadMode = "mock"
  /\ ups = [u \in Slots |-> FreeUpload]
  /\ deleted = {}
  /\ outcomes = {}
  /\ events = n
  /\ navigatorStorage \in platforms
  /\ estimate = NoEstimate
  /\ storageInfo = {}

Init == InitWith({}, FALSE, 0, {Absent}, {Granted})
InitFaults == InitWith({}, TRUE, 0, {Absent}, {Granted})

\* A page load that finds the record an earlier session saved.
EarlierStores == {{NewVideo(<<1>>, 0, 1)}}
InitStored == \E s \in EarlierStores : InitWith(s, FALSE, 0, {Absent}, {Granted})

\* A page load that finds a record an earlier session saved and uploaded.
UploadedStores == {{MarkVideo(NewVideo(<<1>>, 0, 1))}}
InitUploaded == \E s \in UploadedStores : InitWith(s, FALSE, 0, {Absent}, {Granted})

UserEvent == /\ events < MaxEvents
             /\ events' = events + 1

(* ------------------------------ the store ------------------------------ *)
\* init's request.onsuccess, for the oldest pending open: this.db is set and
\* the awaiting call goes on to create its transaction.
OpenDone ==
  /\ openq # <<>>
  /\ db' = "open"
  /\ store' = OpenStore(store)
  /\ \E now \in Times, rnd \in Rnds :
       txq' = Append(txq, Txn(Head(openq), now, rnd))
  /\ openq' = Tail(openq)
  /\ UNCHANGED <<commitFaults, capture, recordingState, recorder, chunks,
                 recordedVideoId, recorderError, storedVideos, uploadProgress,
                 uploadMode, ups, deleted, outcomes, events, estimation>>

(* ----------------------------- the recorder ---------------------------- *)
FreeSessions == {s \in Sessions : sessions[s].pc = "free"}
NextSession == CHOOSE s \in FreeSessions : \A w \in FreeSessions : s <= w

\* A session whose recorder has ended, whose stream has no live track and
\* whose interval is cleared holds nothing: its slot is free again.
Release(ss) ==
  [s \in Sessions |->
     IF ss[s].pc = "ended" /\ ~ss[s].live /\ ~ss[s].ticking THEN FreeSession
     ELSE ss[s]]

\* streamRef.current?.getTracks().forEach(track => track.stop())
StopTracks(ss, ref) ==
  IF ref = NoSession THEN ss ELSE [ss EXCEPT ![ref].live = FALSE]

\* if (durationIntervalRef.current) clearInterval(durationIntervalRef.current)
ClearInterval(ss, ref) ==
  IF ref = NoSession THEN ss ELSE [ss EXCEPT ![ref].ticking = FALSE]

\* startRecording's catch: the message for the error's name
StartError_blank(name) == ""
StartError(name) ==
  IF name = "NotAllowedError" THEN "Camera access denied. Please grant permission."
  ELSE IF name = "NotFoundError" THEN "No camera found on this device."
  ELSE "Failed to start recording"

\* the rejections of getUserMedia: permission denied, no device
MediaErrors == {"NotAllowedError", "NotFoundError"}

\* The page's effect on recordingState: loadStoredVideos() after a step that
\* changed it.
EffectCalls == IF recordingState' # recordingState THEN <<LoadCall>> ELSE <<>>

\* startRecording up to `await getUserMedia(...)`.  The 'Start Recording'
\* button is shown while recordingState is 'idle', which it still is while an
\* earlier call awaits the device: where the permission prompt is open the
\* user can click it again.
StartRecording ==
  /\ recordingState = "idle"
  /\ FreeSessions # {}
  /\ capture.prompts \/ \A s \in Sessions : sessions[s].pc # "asking"
  /\ UserEvent
  /\ recorderError' = ""
  /\ duration' = 0
  /\ sessions' = [sessions EXCEPT ![NextSession].pc = "asking"]
  /\ UNCHANGED <<store, commitFaults, capture, db, openq, txq, recordingState, streamRef,
                 mediaRecorderRef, durationIntervalRef, recordedVideoUrl,
                 chunks, recordedVideoId, storedVideos, uploadProgress,
                 uploadMode, ups, deleted, outcomes, estimation>>

\* getUserMedia rejects: startRecording's catch
GetUserMediaFailed(s, name) ==
  /\ sessions[s].pc = "asking"
  /\ sessions' = [sessions EXCEPT ![s] = FreeSession]
  /\ recorderError' = StartError(name)
  /\ recordingState' = "idle"
  /\ StartCalls(txq, EffectCalls, 0, 1)
  /\ UNCHANGED <<store, commitFaults, capture, db, streamRef, mediaRecorderRef,
                 durationIntervalRef, duration, recordedVideoUrl, chunks,
                 recordedVideoId, storedVideos, uploadProgress, uploadMode, ups,
                 deleted, outcomes, events, estimation>>

\* getUserMedia resolves with a stream and the rest of startRecording runs.
\* `new MediaRecorder(stream, {mimeType})` throws NotSupportedError where the
\* container is not supported (the fallback 'video/webm' is not checked); the
\* catch then sets the error and 'idle' and leaves the stream as it is.
\* Otherwise the refs are set, the recorder and the interval are started and
\* the state is 'recording'.
GetUserMediaDone(s) ==
  /\ sessions[s].pc = "asking"
  /\ streamRef' = s
  /\ IF capture.webm
     THEN /\ sessions' = [sessions EXCEPT ![s] =
                [pc |-> "recording", live |-> TRUE, ticking |-> TRUE]]
          /\ mediaRecorderRef' = s
          /\ chunks' = <<>>
          /\ durationIntervalRef' = s
          /\ recordingState' = "recording"
          /\ UNCHANGED recorderError
     ELSE /\ sessions' = [sessions EXCEPT ![s] =
                [pc |-> "ended", live |-> TRUE, ticking |-> FALSE]]
          /\ recorderError' = StartError("NotSupportedError")
          /\ recordingState' = "idle"
          /\ UNCHANGED <<mediaRecorderRef, chunks, durationIntervalRef>>
  /\ StartCalls(txq, EffectCalls, 0, 1)
  /\ UNCHANGED <<store, commitFaults, capture, db, duration, recordedVideoUrl,
                 recordedVideoId, storedVideos, uploadProgress, uploadMode, ups,
                 deleted, outcomes, events, estimation>>

\* mediaRecorder.ondataavailable, of any recorder that is recording: the chunk
\* goes to chunksRef.current
DataAvailable(data) ==
  /\ \E s \in Sessions : sessions[s].pc = "recording"
  /\ Len(chunks) < MaxChunks
  /\ chunks' = IF Len(data) > 0 THEN Append(chunks, data) ELSE chunks
  /\ chunks' # chunks
  /\ UNCHANGED <<store, commitFaults, capture, db, openq, txq, recordingState,
                 recorder, recordedVideoId, recorderError, storedVideos,
                 uploadProgress, uploadMode, ups, deleted, outcomes, events,
                 estimation>>

\* stopRecording: mediaRecorderRef.current.stop()
StopRecording ==
  /\ recordingState = "recording"
  /\ mediaRecorderRef # NoSession
  /\ sessions[mediaRecorderRef].pc = "recording"
  /\ UserEvent
  /\ sessions' = [sessions EXCEPT ![mediaRecorderRef].pc = "stopping"]
  /\ UNCHANGED <<store, commitFaults, capture, db, openq, txq, recordingState, streamRef,
                 mediaRecorderRef, durationIntervalRef, duration,
                 recordedVideoUrl, chunks, recordedVideoId, recorderError,
                 storedVideos, uploadProgress, uploadMode, ups, deleted,
                 outcomes, estimation>>

\* mediaRecorder.onstop up to its await: 'saving', the blob, saveVideo(blob);
\* then the effect on recordingState reloads the list.
OnStop(s) ==
  /\ sessions[s].pc = "stopping"
  /\ sessions' = Release([sessions EXCEPT ![s].pc = "ended"])
  /\ mediaRecorderRef' = IF mediaRecorderRef = s THEN NoSession
                         ELSE mediaRecorderRef
  /\ recordingState' = "saving"
  /\ \E now \in Times, rnd \in Rnds :
       StartCalls(txq, <<SaveCall(MakeBlob(chunks))>> \o EffectCalls, now, rnd)
  /\ UNCHANGED <<store, commitFaults, capture, db, streamRef, durationIntervalRef,
                 duration, recordedVideoUrl, chunks, recordedVideoId,
                 recorderError, storedVideos, uploadProgress, uploadMode, ups,
                 deleted, outcomes, events, estimation>>

\* saveVideo's add request and the rest of onstop.  A key already present is
\* a ConstraintError: request.onerror rejects and onstop's catch runs.
\* Otherwise request.onsuccess resolves with the id, whether or not the
\* transaction then commits.  After either, the tracks of streamRef.current
\* are stopped and the interval of durationIntervalRef.current is cleared.
SaveVideoDone ==
  /\ txq # <<>>
  /\ Head(txq).op = "add"
  /\ LET t == Head(txq)
         video == CHOOSE v \in t.video : TRUE
         added == AddRequest(store, video)
     IN IF ~added.ok
        THEN /\ store' = store
             /\ recorderError' = "Failed to save video locally"
             /\ recordingState' = "idle"
             /\ UNCHANGED <<recordedVideoId, recordedVideoUrl>>
        ELSE /\ \E committed \in CommitOutcomes :
                  store' = IF committed THEN added.store ELSE store
             /\ recordedVideoId' = t.id
             /\ recordedVideoUrl' = {t.blob}
             /\ recordingState' = "stopped"
             /\ UNCHANGED recorderError
  /\ sessions' = Release(ClearInterval(StopTracks(sessions, streamRef),
                                       durationIntervalRef))
  /\ streamRef' = NoSession
  /\ durationIntervalRef' = NoSession
  /\ StartCalls(Tail(txq), EffectCalls, 0, 1)
  /\ UNCHANGED <<commitFaults, capture, db, mediaRecorderRef, duration, chunks,
                 storedVideos, uploadProgress, uploadMode, ups, deleted,
                 outcomes, events, estimation>>

\* clearRecording ('Record Again')
ClearRecording_anytime ==
  /\ recordingState # "idle"
  /\ UserEvent
  /\ recordedVideoUrl' = {}
  /\ recordedVideoId' = NoId
  /\ recordingState' = "idle"
  /\ duration' = 0
  /\ recorderError' = ""
  /\ StartCalls(txq, EffectCalls, 0, 1)
  /\ UNCHANGED <<store, commitFaults, capture, db, sessions, streamRef, mediaRecorderRef,
                 durationIntervalRef, chunks, storedVideos, uploadProgress,
                 uploadMode, ups, deleted, outcomes, estimation>>
ClearRecording ==
  /\ recordingState = "stopped"
  /\ UserEvent
  /\ recordedVideoUrl' = {}
  /\ recordedVideoId' = NoId
  /\ recordingState' = "idle"
  /\ duration' = 0
  /\ recorderError' = ""
  /\ StartCalls(txq, EffectCalls, 0, 1)
  /\ UNCHANGED <<store, commitFaults, capture, db, sessions, streamRef, mediaRecorderRef,
                 durationIntervalRef, chunks, storedVideos, uploadProgress,
                 uploadMode, ups, deleted, outcomes, estimation>>

\* a tick of a duration interval: setDuration(prev => prev + 1)
Tick(s) ==
  /\ sessions[s].ticking
  /\ duration < MaxDuration
  /\ duration' = duration + 1
  /\ UNCHANGED <<store, commitFaults, capture, db, openq, txq, recordingState, sessions,
                 streamRef, mediaRecorderRef, durationIntervalRef,
                 recordedVideoUrl, chunks, recordedVideoId, recorderError,
                 storedVideos, uploadProgress, uploadMode, ups, deleted,
                 outcomes, events, estimation>>

(* ------------------------------- the page ------------------------------ *)
\* loadStoredVideos: getAllVideos' request.onsuccess, then setStoredVideos
LoadDone ==
  /\ txq # <<>>
  /\ Head(txq).op = "getAll"
  /\ Head(txq).k = "load"
  /\ storedVideos' = GetAll(store)
  /\ txq' = Tail(txq)
  /\ UNCHANGED <<store, commitFaults, capture, db, openq, recordingState, recorder,
                 chunks, recordedVideoId, recorderError, uploadProgress,
                 uploadMode, ups, deleted, outcomes, events, estimation>>

\* the 'Refresh' button
ClickRefresh ==
  /\ UserEvent
  /\ StartCalls(txq, <<LoadCall>>, 0, 1)
  /\ UNCHANGED <<store, commitFaults, capture, db, recordingState, recorder, chunks,
                 recordedVideoId, recorderError, storedVideos, uploadProgress,
                 uploadMode, ups, deleted, outcomes, estimation>>

\* Reloading the page: every in-memory value is gone, pending requests and
\* transactions with it; the store is on disk.  The new page mounts and its
\* effect calls loadStoredVideos.
Reload ==
  /\ UserEvent
  /\ db' = "null"
  /\ openq' = <<LoadCall>>
  /\ txq' = <<>>
  /\ recordingState' = "idle"
  /\ sessions' = [s \in Sessions |-> FreeSession]
  /\ streamRef' = NoSession
  /\ mediaRecorderRef' = NoSession
  /\ durationIntervalRef' = NoSession
  /\ duration' = 0
  /\ recordedVideoUrl' = {}
  /\ chunks' = <<>>
  /\ recordedVideoId' = NoId
  /\ recorderError' = ""
  /\ storedVideos' = <<>>
  /\ uploadProgress' = IdleProgress
  /\ uploadMode' = "mock"
  /\ ups' = [u \in Slots |-> FreeUpload]
  /\ UNCHANGED <<store, commitFaults, capture, deleted, outcomes, estimation>>

\* the upload mode selector, shown in the upload section
SetUploadMode(mode) ==
  /\ recordingState = "stopped"
  /\ recordedVideoId # NoId
  /\ mode # uploadMode
  /\ UserEvent
  /\ uploadMode' = mode
  /\ UNCHANGED <<store, commitFaults, capture, db, openq, txq, recordingState,
                 recorder, chunks, recordedVideoId, recorderError,
                 storedVideos, uploadProgress, ups, deleted, outcomes, estimation>>

\* handleUpload(videoId, blob) up to the strategy's first await.  mockUpload
\* and forceFailUpload start their loop; realUpload reports its one progress
\* point and awaits fetch.
HandleUploadStart(u, id, blob) ==
  /\ ups' = [ups EXCEPT ![u] =
       [pc |-> IF uploadMode = "real" THEN "fetch" ELSE "run",
        id |-> id, blob |-> blob, mode |-> uploadMode, i |-> 0, ok |-> FALSE,
        notes |-> IF uploadMode = "real" THEN <<StartNote, RealNote>>
                  ELSE <<StartNote>>,
        retry |-> <<id, "failed">> \in outcomes, error |-> ""]]
  /\ uploadProgress' = IF uploadMode = "real" THEN RealNote ELSE StartNote

\* the 'Upload Video' button: getVideo(recordedVideoId) is awaited first
ClickUploadVideo ==
  /\ recordingState = "stopped"
  /\ recordedVideoId # NoId
  /\ uploadProgress.status # "uploading"
  /\ FreeSlots # {}
  /\ UserEvent
  /\ ups' = [ups EXCEPT ![NextSlot] =
       [FreeUpload EXCEPT !.pc = "lookup", !.id = recordedVideoId]]
  /\ StartCalls(txq, <<Call("get", "button", recordedVideoId, <<>>, {}, NextSlot)>>, 0, 1)
  /\ UNCHANGED <<store, commitFaults, capture, db, recordingState, recorder, chunks,
                 recordedVideoId, recorderError, storedVideos, uploadProgress,
                 uploadMode, deleted, outcomes, estimation>>

\* the button's getVideo resolves: `if (video) handleUpload(id, video.blob)`
ButtonLookupDone ==
  /\ txq # <<>>
  /\ Head(txq).op = "get"
  /\ Head(txq).k = "button"
  /\ LET t == Head(txq)
         found == Get(store, t.id)
     IN IF found # {}
        THEN HandleUploadStart(t.u, t.id, (CHOOSE v \in found : TRUE).blob)
        ELSE /\ ups' = [ups EXCEPT ![t.u] = FreeUpload]
             /\ UNCHANGED uploadProgress
  /\ txq' = Tail(txq)
  /\ UNCHANGED <<store, commitFaults, capture, db, openq, recordingState, recorder,
                 chunks, recordedVideoId, recorderError, storedVideos,
                 uploadMode, deleted, outcomes, events, estimation>>

\* a stored video's 'Upload' button: handleUpload(video.id, video.blob) with
\* the record as the list holds it
ClickUploadStored(n) ==
  /\ ~storedVideos[n].uploaded
  /\ uploadProgress.status # "uploading"
  /\ FreeSlots # {}
  /\ UserEvent
  /\ HandleUploadStart(NextSlot, storedVideos[n].id, storedVideos[n].blob)
  /\ UNCHANGED <<store, commitFaults, capture, db, openq, txq, recordingState,
                 recorder, chunks, recordedVideoId, recorderError,
                 storedVideos, uploadMode, deleted, outcomes, estimation>>

\* one turn of the loop of mockUpload / forceFailUpload: after the delay,
\* onProgress('uploading', i).  After the last turn mockUpload draws
\* shouldSucceed; both then await the final delay.
UploadProgressStep(u) ==
  /\ ups[u].pc = "run"
  /\ LET step == IF ups[u].mode = "mock" THEN MockStep ELSE FailStep
         last == IF ups[u].mode = "mock" THEN MockLast ELSE FailLast
         i == ups[u].i
         notes == Append(ups[u].notes, LoopNote(i))
     IN /\ uploadProgress' = LoopNote(i)
        /\ IF i + step <= last
           THEN ups' = [ups EXCEPT ![u].i = i + step, ![u].notes = notes]
           ELSE \E shouldSucceed \in LoopResults(ups[u].mode) :
                  ups' = [ups EXCEPT ![u].pc = "final", ![u].ok = shouldSucceed,
                                     ![u].notes = notes]
  /\ UNCHANGED <<store, commitFaults, capture, db, openq, txq, recordingState,
                 recorder, chunks, recordedVideoId, recorderError,
                 storedVideos, uploadMode, deleted, outcomes, events, estimation>>

\* How realUpload's fetch can settle: a 2xx response with a JSON body, a
\* response that is not ok, or a rejection (network failure).
Responses == {"ok", "status", "rejected"}

\* the message of the error realUpload's catch gets: `HTTP ${status}:
\* ${statusText}` thrown at line 102, or the message of fetch's TypeError
ErrorMessage_none(response) == ""
ErrorMessage(response) ==
  IF response = "status" THEN "HTTP status"
  ELSE IF response = "rejected" THEN "Failed to fetch"
  ELSE ""

\* the message of the UploadResult realUpload returns
ResultMessage(ok, error) ==
  IF ok THEN <<"Video uploaded successfully">> ELSE <<"Upload failed: ", error>>

\* realUpload's fetch settles; anything but a 2xx response with a JSON body
\* goes to the catch, which makes a failed result of it.
FetchDone(u, response) ==
  /\ ups[u].pc = "fetch"
  /\ ups' = [ups EXCEPT ![u].pc = "final", ![u].ok = (response = "ok"),
                        ![u].error = ErrorMessage(response)]
  /\ UNCHANGED <<store, commitFaults, capture, db, openq, txq, recordingState,
                 recorder, chunks, recordedVideoId, recorderError,
                 storedVideos, uploadProgress, uploadMode, deleted, outcomes, events, estimation>>

\* The strategy's terminal notification and return, and handleUpload after
\* it: markAsUploaded(videoId) on success (its getVideo comes first), else
\* straight to the setTimeout.
UploadFinish(u) ==
  /\ ups[u].pc = "final"
  /\ LET final == FinalNotes(ups[u].ok)
         notes == ups[u].notes \o final
     IN /\ uploadProgress' = final[Len(final)]
        /\ IF ShouldMark(ups[u].ok)
           THEN /\ ups' = [ups EXCEPT ![u].pc = "mark", ![u].notes = notes]
                /\ StartCalls(txq,
                     <<Call("get", "mark", ups[u].id, <<>>, {}, u)>>, 0, 1)
           ELSE /\ ups' = [ups EXCEPT ![u].pc = "timer", ![u].notes = notes]
                /\ UNCHANGED <<openq, txq>>
  /\ outcomes' = outcomes \cup
       {<<ups[u].id, IF ups[u].ok THEN "success" ELSE "failed">>}
  /\ UNCHANGED <<store, commitFaults, capture, db, recordingState, recorder, chunks,
                 recordedVideoId, recorderError, storedVideos, uploadMode,
                 deleted, events, estimation>>

\* markAsUploaded after its getVideo: 'Video not found' rejects handleUpload
\* (nothing catches it, no timer is set); else video.uploaded = true and the
\* put transaction is created.
MarkLookupDone ==
  /\ txq # <<>>
  /\ Head(txq).op = "get"
  /\ Head(txq).k = "mark"
  /\ LET t == Head(txq)
         found == Get(store, t.id)
     IN IF found = {}
        THEN /\ ups' = [ups EXCEPT ![t.u] = FreeUpload]
             /\ txq' = Tail(txq)
             /\ outcomes' = outcomes \cup {<<t.id, "not-found">>}
        ELSE /\ ups' = ups
             /\ txq' = Append(Tail(txq),
                  Call("put", "mark", t.id, <<>>,
                       {MarkVideo(CHOOSE v \in found : TRUE)}, t.u))
             /\ UNCHANGED outcomes
  /\ UNCHANGED <<store, commitFaults, capture, db, openq, recordingState, recorder,
                 chunks, recordedVideoId, recorderError, storedVideos,
                 uploadProgress, uploadMode, deleted, events, estimation>>

\* markAsUploaded's put request succeeds; handleUpload goes on to
\* `await loadStoredVideos()`.
MarkPutDone ==
  /\ txq # <<>>
  /\ Head(txq).op = "put"
  /\ LET t == Head(txq)
     IN /\ \E committed \in CommitOutcomes :
             store' = IF committed THEN Put(store, CHOOSE v \in t.video : TRUE)
                      ELSE store
        /\ ups' = [ups EXCEPT ![t.u].pc = "load"]
        /\ txq' = Append(Tail(txq), Call("getAll", "upload", NoId, <<>>, {}, t.u))
  /\ UNCHANGED <<commitFaults, capture, db, openq, recordingState, recorder, chunks,
                 recordedVideoId, recorderError, storedVideos, uploadProgress,
                 uploadMode, deleted, outcomes, events, estimation>>

\* handleUpload's loadStoredVideos resolves; the setTimeout is set and
\* handleUpload returns.
UploadReloadDone ==
  /\ txq # <<>>
  /\ Head(txq).op = "getAll"
  /\ Head(txq).k = "upload"
  /\ storedVideos' = GetAll(store)
  /\ ups' = [ups EXCEPT ![Head(txq).u].pc = "timer"]
  /\ txq' = Tail(txq)
  /\ UNCHANGED <<store, commitFaults, capture, db, openq, recordingState, recorder,
                 chunks, recordedVideoId, recorderError, uploadProgress,
                 uploadMode, deleted, outcomes, events, estimation>>

\* the 3 s timer of a returned handleUpload
StatusReset(u) ==
  /\ ups[u].pc = "timer"
  /\ uploadProgress' = IdleProgress
  /\ ups' = [ups EXCEPT ![u] = FreeUpload]
  /\ UNCHANGED <<store, commitFaults, capture, db, openq, txq, recordingState,
                 recorder, chunks, recordedVideoId, recorderError,
                 storedVideos, uploadMode, deleted, outcomes, events, estimation>>

\* a stored video's 'Delete' button: handleDelete up to deleteVideo's request
ClickDelete(n) ==
  /\ UserEvent
  /\ StartCalls(txq, <<DeleteCall(storedVideos[n].id)>>, 0, 1)
  /\ UNCHANGED <<store, commitFaults, capture, db, recordingState, recorder, chunks,
                 recordedVideoId, recorderError, storedVideos, uploadProgress,
                 uploadMode, ups, deleted, outcomes, estimation>>

\* deleteVideo's request succeeds (present or not); handleDelete goes on to
\* loadStoredVideos.
DeleteDone ==
  /\ txq # <<>>
  /\ Head(txq).op = "delete"
  /\ LET t == Head(txq)
     IN /\ \E committed \in CommitOutcomes :
             store' = IF committed THEN Delete(store, t.id) ELSE store
        /\ deleted' = deleted \cup {t.id}
        /\ txq' = Append(Tail(txq), LoadCall)
  /\ UNCHANGED <<commitFaults, capture, db, openq, recordingState, recorder, chunks,
                 recordedVideoId, recorderError, storedVideos, uploadProgress,
                 uploadMode, ups, outcomes, events, estimation>>

(* --------------------------- storage estimate -------------------------- *)
\* `estimate.usage || 0`
OrZero(x) == IF x = {} THEN 0 ELSE CHOOSE b \in x : TRUE

\* loadStorageInfo calls getStorageEstimate, which returns {usage: 0,
\* quota: 0} when navigator.storage.estimate is not there and else awaits it.
LoadStorageInfo ==
  /\ estimate.pc = "none"
  /\ estimate' = IF navigatorStorage.api = "absent"
                 THEN [pc |-> "resolved", usage |-> 0, quota |-> 0]
                 ELSE [NoEstimate EXCEPT !.pc = "awaiting"]
  /\ UNCHANGED <<store, commitFaults, capture, db, openq, txq, recordingState, recorder,
                 chunks, recordedVideoId, recorderError, storedVideos,
                 uploadProgress, uploadMode, ups, deleted, outcomes, events,
                 navigatorStorage, storageInfo>>

\* navigator.storage.estimate() settles; getStorageEstimate has no catch, so
\* it rejects when estimate() does.
EstimateSettled ==
  /\ estimate.pc = "awaiting"
  /\ estimate' = IF navigatorStorage.api = "rejects"
                 THEN [NoEstimate EXCEPT !.pc = "rejected"]
                 ELSE [pc |-> "resolved",
                       usage |-> OrZero(navigatorStorage.usage),
                       quota |-> OrZero(navigatorStorage.quota)]
  /\ UNCHANGED <<store, commitFaults, capture, db, openq, txq, recordingState, recorder,
                 chunks, recordedVideoId, recorderError, storedVideos,
                 uploadProgress, uploadMode, ups, deleted, outcomes, events,
                 navigatorStorage, storageInfo>>

\* loadStorageInfo after its await: setStorageInfo(info), or its catch, which
\* logs.  What the platform will do at the next call is open again.
LoadStorageInfoDone ==
  /\ estimate.pc \in {"resolved", "rejected"}
  /\ storageInfo' = IF estimate.pc = "resolved"
                    THEN {[usage |-> estimate.usage, quota |-> estimate.quota]}
                    ELSE storageInfo
  /\ estimate' = NoEstimate
  /\ navigatorStorage' \in Platforms
  /\ UNCHANGED <<store, commitFaults, capture, db, openq, txq, recordingState, recorder,
                 chunks, recordedVideoId, recorderError, storedVideos,
                 uploadProgress, uploadMode, ups, deleted, outcomes, events>>

Next ==
  \/ OpenDone
  \/ StartRecording
  \/ \E s \in Sessions, name \in MediaErrors : GetUserMediaFailed(s, name)
  \/ \E s \in Sessions : GetUserMediaDone(s)
  \/ \E data \in ChunkData : DataAvailable(data)
  \/ StopRecording
  \/ \E s \in Sessions : OnStop(s)
  \/ SaveVideoDone
  \/ ClearRecording
  \/ LoadDone
  \/ ClickRefresh
  \/ Reload
  \/ \E mode \in {"mock", "real", "force-fail"} : SetUploadMode(mode)
  \/ ClickUploadVideo
  \/ ButtonLookupDone
  \/ \E n \in DOMAIN storedVideos : ClickUploadStored(n)
  \/ \E u \in Slots : UploadProgressStep(u)
  \/ \E u \in Slots, response \in Responses : FetchDone(u, response)
  \/ \E u \in Slots : UploadFinish(u)
  \/ MarkLookupDone
  \/ MarkPutDone
  \/ UploadReloadDone
  \/ \E u \in Slots : StatusReset(u)
  \/ \E n \in DOMAIN storedVideos : ClickDelete(n)
  \/ DeleteDone

Spec == Init /\ [][Next]_vars
SpecFaults == InitFaults /\ [][Next]_vars
SpecStored == InitStored /\ [][Next]_vars
SpecUploaded == InitUploaded /\ [][Next]_vars

\* The page on every capture platform.
InitRecorder == InitWith({}, FALSE, 0, {Absent}, Captures)
SpecRecorder == InitRecorder /\ [][Next]_vars

\* The page where the permission prompt is open while getUserMedia is pending.
Prompting == [prompts |-> TRUE, webm |-> TRUE]
InitPrompt == InitWith({}, FALSE, 0, {Absent}, {Prompting})
SpecPrompt == InitPrompt /\ [][Next]_vars

\* The page with its clock: the duration intervals tick.
NextTimed == Next \/ \E s \in Sessions : Tick(s)
SpecTimed == Init /\ [][NextTimed]_vars

\* loadStorageInfo alone, on every platform.
InitEstimate == InitWith({}, FALSE, 0, Platforms, {Granted})
NextEstimate == LoadStorageInfo \/ EstimateSettled \/ LoadStorageInfoDone
SpecEstimate == InitEstimate /\ [][NextEstimate]_vars

\* The strategies' awaits are timers (delay) and a fetch: timers fire and a
\* fetch settles, so a strategy that can take its next step takes it.
UploadFairness ==
  \A u \in Slots : /\ WF_vars(UploadProgressStep(u))
                   /\ WF_vars(\E response \in Responses : FetchDone(u, response))
                   /\ WF_vars(UploadFinish(u))
SpecLive == Init /\ [][Next]_vars /\ UploadFairness

\* Timers fire, fetches settle and IndexedDB serves its open requests and
\* transactions: every step that is not the user's is taken when it can be.
PageFairness ==
  /\ UploadFairness
  /\ \A u \in Slots : WF_vars(StatusReset(u))
  /\ WF_vars(OpenDone) /\ WF_vars(SaveVideoDone) /\ WF_vars(LoadDone)
  /\ WF_vars(ButtonLookupDone) /\ WF_vars(MarkLookupDone)
  /\ WF_vars(MarkPutDone) /\ WF_vars(UploadReloadDone) /\ WF_vars(DeleteDone)
SpecPage == Init /\ [][Next]_vars /\ PageFairness

(* ------------------------------- claims -------------------------------- *)
Listed(list) == {list[n] : n \in DOMAIN list}
Pending == openq \o txq
CallsOf(u) == {n \in DOMAIN Pending : Pending[n].u = u}
UniqueIds(s) == \A v \in s, w \in s : v.id = w.id => v = w

\* C1: a reload, and the page load that follows it, leave every committed
\* record in the store as it was (while the page has no db handle nothing
\* changes the store), and a completed loadStoredVideos lists every record.
C1_ReloadKeepsRecords ==
  [][/\ (db = "null" \/ db' = "null") => store' = store
     /\ LoadDone => Listed(storedVideos') = store /\ Len(storedVideos') = Cardinality(store)
    ]_vars

\* C1 witness: the page has just been reloaded with a committed record.
C1_Witness == db = "null" /\ store # {}

\* C2 (as stated): after a handleUpload call whose strategy failed, the
\* record (unless the user deleted it) is returned by getVideo with
\* uploaded = false and the blob the call was given.
C2_FailedUploadLeavesPending ==
  \A u \in Slots :
    (ups[u].pc \in {"final", "timer"} /\ ~ups[u].ok /\ ups[u].id \notin deleted) =>
      \E v \in store : v.id = ups[u].id /\ ~v.uploaded /\ v.blob = ups[u].blob

\* C2 (amended): a handleUpload call whose strategy failed makes no store
\* call at all (it never enters markAsUploaded, nothing of it is queued), and
\* unless the record was deleted it is still there with the blob the call was
\* given; its uploaded flag is whatever the other calls have made it.
C2_FailedUploadWritesNothing ==
  \A u \in Slots :
    (ups[u].pc \in {"final", "mark", "load", "timer"} /\ ~ups[u].ok) =>
      /\ ups[u].pc \in {"final", "timer"}
      /\ CallsOf(u) = {}
      /\ ups[u].id \notin deleted =>
           \E v \in store : v.id = ups[u].id /\ v.blob = ups[u].blob

\* C2 witness: a failed handleUpload has returned and its record is still
\* pending, so the list offers it for upload again.
C2_Witness ==
  \E u \in Slots : \E v \in store :
    /\ ups[u].pc = "timer" /\ ~ups[u].ok
    /\ v.id = ups[u].id /\ ~v.uploaded /\ v.blob = ups[u].blob
    /\ v \in Listed(storedVideos)

\* C3: once markAsUploaded has completed in a handleUpload whose strategy
\* succeeded (so when handleUpload returns), the record, unless deleted, has
\* uploaded = true; this stays so through further uploads of the same id.
C3_SuccessMarksUploaded ==
  \A u \in Slots :
    (ups[u].pc \in {"load", "timer"} /\ ups[u].ok /\ ups[u].id \notin deleted) =>
      \E v \in store : v.id = ups[u].id /\ v.uploaded

\* C3 witness: a successful upload has returned, a further upload of the same
\* id has run and failed, and the record is uploaded.
C3_Witness ==
  \E u \in Slots, w \in Slots : \E v \in store :
    /\ ups[u].pc = "timer" /\ ups[u].ok
    /\ ups[w].pc = "timer" /\ ~ups[w].ok /\ ups[w].id = ups[u].id
    /\ v.id = ups[u].id /\ v.uploaded

\* C4: no step turns a record's uploaded flag from true to false while the
\* record stays in the store.
C4_UploadedMonotonic ==
  [][\A v \in store : \A w \in store' :
       (v.uploaded /\ w.id = v.id) => w.uploaded]_vars

\* C4 witness: an uploaded record is still uploaded after a reload.
C4_Witness == db = "null" /\ \E v \in store : v.uploaded

\* C5: a record's uploaded flag becomes true (or a record appears with it
\* true) only in the put of markAsUploaded for that id, inside a handleUpload
\* whose strategy returned success; saveVideo never writes it true.
C5_UploadedOnlyBySuccess ==
  [][\A w \in store' :
       (w.uploaded /\ ~\E v \in store : v.id = w.id /\ v.uploaded) =>
         /\ txq # <<>>
         /\ Head(txq).op = "put"
         /\ Head(txq).id = w.id
         /\ ups[Head(txq).u].ok
         /\ ups[Head(txq).u].id = w.id]_vars

\* C5 witness: markAsUploaded has just written the flag for a successful
\* upload.
C5_Witness ==
  \E u \in Slots : \E v \in store :
    ups[u].pc = "load" /\ ups[u].ok /\ v.id = ups[u].id /\ v.uploaded

\* C6: once deleteVideo(id) has completed, no record with that id is in the
\* store.
C6_DeleteIrreversible == \A id \in deleted : ~HasKey(store, id)

\* C7: when saveVideo(P) resolves with an id, getVideo of that id yields a
\* record with blob P, uploaded = false and that id.
C7_SaveGetRoundTrip ==
  [][(recordingState = "saving" /\ recordingState' = "stopped") =>
       LET got == Get(store', recordedVideoId')
       IN /\ got # {}
          /\ \A v \in got : /\ v.blob = Head(txq).blob
                            /\ ~v.uploaded
                            /\ v.id = recordedVideoId'
                            /\ v.id = Head(txq).id]_vars

\* C7 witness: a recording with a non-empty payload has been saved.
C7_Witness ==
  /\ recordingState = "stopped"
  /\ MakeBlob(chunks) # <<>>
  /\ \E v \in store : v.id = recordedVideoId /\ v.blob = MakeBlob(chunks)

\* C8: when deleteVideo(id) completes getVideo(id) finds nothing, whether or
\* not the record was there; deleting an absent id changes nothing and
\* resolves like any delete (handleDelete goes on to reload the list).
C8_DeleteThenGet ==
  [][DeleteDone =>
       /\ Get(store', Head(txq).id) = {}
       /\ ~HasKey(store, Head(txq).id) => store' = store
       /\ txq' # <<>> /\ txq'[Len(txq')] = LoadCall]_vars

\* C8 witness: a delete of an id has completed and a second delete of the
\* same id is queued.
C8_Witness ==
  \E id \in deleted :
    /\ ~HasKey(store, id)
    /\ \E n \in DOMAIN txq : txq[n].op = "delete" /\ txq[n].id = id

\* C9: saveVideo hands an id to its caller only for a record that is
\* committed.
C9_SaveReturnsCommittedId ==
  [][(recordedVideoId' # recordedVideoId /\ recordedVideoId' # NoId) =>
       HasKey(store', recordedVideoId')]_vars

\* C10: the ids in the store are unique; a saveVideo whose id is free adds
\* exactly its record, and one whose id is taken fails (onstop's catch runs)
\* and leaves the store as it was.
C10_UniqueIds ==
  [][/\ UniqueIds(store')
     /\ SaveVideoDone =>
          LET video == CHOOSE v \in Head(txq).video : TRUE
          IN IF HasKey(store, video.id)
             THEN /\ store' = store
                  /\ recordingState' = "idle"
                  /\ recorderError' = "Failed to save video locally"
                  /\ recordedVideoId' = recordedVideoId
             ELSE /\ store' = store \cup {video}
                  /\ recordedVideoId' = video.id]_vars

\* C10 witness: a save collided with the stored record and failed; the record
\* is still the earlier session's.
C10_Witness ==
  /\ recorderError = "Failed to save video locally"
  /\ store \in UploadedStores

C12_MarkIdempotent ==
  [][/\ (MarkLookupDone /\ \E v \in Get(store, Head(txq).id) : v.uploaded) =>
          /\ outcomes' = outcomes
          /\ txq'[Len(txq')].op = "put"
          /\ txq'[Len(txq')].video = Get(store, Head(txq).id)
     /\ (MarkPutDone /\ \E v \in store, w \in Head(txq).video :
                          v.id = w.id /\ v.uploaded /\ v.blob = w.blob) =>
          /\ store' = store
          /\ ups'[Head(txq).u].pc = "load"]_vars

\* C12 witness: two handleUpload calls for one id have both completed
\* markAsUploaded.
C12_Witness ==
  \E u \in Slots, w \in Slots : \E v \in store :
    /\ u # w /\ ups[u].id = ups[w].id /\ v.id = ups[u].id /\ v.uploaded
    /\ ups[u].ok /\ ups[u].pc \in {"load", "timer"}
    /\ ups[w].ok /\ ups[w].pc \in {"load", "timer"}

\* C13: markAsUploaded(id) for an id with no record throws 'Video not found'
\* (handleUpload is rejected), makes no put and leaves the store as it was.
C13_MarkNotFound ==
  [][(MarkLookupDone /\ ~HasKey(store, Head(txq).id)) =>
       /\ <<Head(txq).id, "not-found">> \in outcomes'
       /\ ups'[Head(txq).u] = FreeUpload
       /\ txq' = Tail(txq)
       /\ store' = store]_vars

\* C13 witness: markAsUploaded has thrown for an id whose record was deleted
\* during the upload, and no record of that id is stored.
C13_Witness ==
  \E o \in outcomes :
    o[2] = "not-found" /\ o[1] \in deleted /\ ~HasKey(store, o[1])

\* C14: deleteVideo(id) for an id with no record fails with not-found: the
\* call does not complete as a delete and handleDelete's catch runs instead of
\* its loadStoredVideos.
C14_DeleteAbsentFails ==
  [][(DeleteDone /\ ~HasKey(store, Head(txq).id)) =>
       /\ Head(txq).id \notin deleted'
       /\ txq' = Tail(txq)]_vars

\* C15: an upload strategy is invoked (a handleUpload call enters mockUpload,
\* realUpload or forceFailUpload) only for an id whose record is in the store
\* at that moment.
C15_UploadLooksUpFirst ==
  [][\A u \in Slots :
       (ups[u].pc \notin {"run", "fetch"} /\ ups'[u].pc \in {"run", "fetch"}) =>
         HasKey(store, ups'[u].id)]_vars

\* the handleUpload calls whose strategy has returned
Returned == {u \in Slots : ups[u].pc \in {"mark", "load", "timer"}}
\* the notifications of call u from its strategy on (all but handleUpload's
\* own first one)
StrategyNotes(u) == Tail(ups[u].notes)
LastNote(u) == ups[u].notes[Len(ups[u].notes)]
IsTerminal(note) == note.status \in {"success", "failed"}

\* C16: when a strategy has returned, the status of its last notification is
\* 'success' if it returned success: true and 'failed' if success: false.
C16_LastStatusMatchesResult ==
  \A u \in Returned :
    /\ StrategyNotes(u) # <<>>
    /\ LastNote(u).status = (IF ups[u].ok THEN "success" ELSE "failed")

\* C16 witness: one strategy has returned success and another failure.
C16_Witness ==
  \E u \in Returned, w \in Returned :
    /\ ups[u].ok /\ LastNote(u).status = "success"
    /\ ~ups[w].ok /\ LastNote(w).status = "failed"

InStrategy(u) == ups[u].pc \in {"run", "fetch", "final"}
Terminals(u) == {n \in DOMAIN ups[u].notes : IsTerminal(ups[u].notes[n])}

\* C17: a call has emitted at most one terminal notification and nothing after
\* it; a strategy that has returned has emitted exactly one, and the observer
\* holds a terminal status at the moment it returns; and every call that is
\* in its strategy gets there (unless the page is reloaded under it).
C17_TerminalExactlyOnce ==
  /\ [](\A u \in Slots :
          /\ Cardinality(Terminals(u)) <= 1
          /\ Terminals(u) \subseteq {Len(ups[u].notes)}
          /\ u \in Returned => Terminals(u) = {Len(ups[u].notes)})
  /\ [][\A u \in Slots :
          (InStrategy(u) /\ ups'[u].pc \in {"mark", "timer"}) =>
            IsTerminal(uploadProgress')]_vars
  /\ \A u \in Slots : InStrategy(u) ~> (u \in Returned \/ db = "null")

\* C17 witness: realUpload has returned after its two notifications.
C17_Witness ==
  \E u \in Returned :
    /\ ups[u].mode = "real"
    /\ Len(ups[u].notes) = 3
    /\ ups[u].notes[2] = RealNote
    /\ IsTerminal(ups[u].notes[3])

\* C18: in the notifications of one handleUpload call (its own first one,
\* then the strategy's), every notification before the terminal one has
\* status 'uploading' and a percent within 0..100 that is not below the
\* percent of the notification before it; the observer holds the newest one
\* at the moment it is emitted.
C18_ProgressMonotone ==
  /\ [](\A u \in Slots :
          \A n \in DOMAIN ups[u].notes \ Terminals(u) :
            /\ ups[u].notes[n].status = "uploading"
            /\ ups[u].notes[n].progress \in 0..FullProgress
            /\ n > 1 => ups[u].notes[n - 1].progress <= ups[u].notes[n].progress)
  /\ [][\A u \in Slots :
          Len(ups'[u].notes) > Len(ups[u].notes) =>
            uploadProgress' = ups'[u].notes[Len(ups'[u].notes)]]_vars

\* C18 witness: mockUpload's loop has reported 100% after the steps before it.
C18_Witness ==
  \E u \in Slots :
    /\ ups[u].mode = "mock"
    /\ Len(ups[u].notes) >= 12
    /\ ups[u].notes[12] = Progress("uploading", FullProgress)
    /\ ups[u].notes[2] = Progress("uploading", 0)

\* C19: a handleUpload call started after an upload of the same id had failed
\* finds the record still stored with its payload (unless the user deleted
\* it), and when its strategy succeeds the record is uploaded once
\* markAsUploaded has completed.
C19_RetryAfterFailure ==
  \A u \in Slots :
    (ups[u].retry /\ ups[u].pc # "free" /\ ups[u].id \notin deleted) =>
      \E v \in store :
        /\ v.id = ups[u].id
        /\ v.blob = ups[u].blob
        /\ (ups[u].ok /\ ups[u].pc \in {"load", "timer"}) => v.uploaded

\* C19 witness: after a failed upload of the id, a second call has succeeded
\* and returned, and the record is uploaded.
C19_Witness ==
  \E u \in Slots : \E v \in store :
    /\ ups[u].retry /\ ups[u].ok /\ ups[u].pc = "timer"
    /\ <<ups[u].id, "failed">> \in outcomes
    /\ v.id = ups[u].id /\ v.uploaded

\* the notifications of a complete forceFailUpload
ForceFailNotes ==
  <<Progress("uploading", 0), Progress("uploading", 20), Progress("uploading", 40),
    Progress("uploading", 60), Progress("failed", 0)>>

\* C20: a forceFailUpload call never has a success result; when it has
\* returned it has emitted 'uploading' at 0, 20, 40, 60 and then 'failed',
\* handleUpload has gone straight to its timer, and a record no upload has
\* succeeded for (and the user has not deleted) is stored with uploaded =
\* false.
C20_ForceFailAlwaysFails ==
  \A u \in Slots :
    (ups[u].mode = "force-fail" /\ ups[u].pc # "free") =>
      /\ ~ups[u].ok
      /\ ups[u].pc \in {"run", "final", "timer"}
      /\ ups[u].pc = "timer" =>
           /\ StrategyNotes(u) = ForceFailNotes
           /\ (ups[u].id \notin deleted /\ <<ups[u].id, "success">> \notin outcomes) =>
                \E v \in store : v.id = ups[u].id /\ ~v.uploaded

\* C20 witness: a force-fail upload of a fresh record has returned and the
\* record is stored, not uploaded.
C20_Witness ==
  \E u \in Slots : \E v \in store :
    /\ ups[u].mode = "force-fail" /\ ups[u].pc = "timer"
    /\ outcomes = {<<ups[u].id, "failed">>}
    /\ v.id = ups[u].id /\ ~v.uploaded /\ uploadProgress = Progress("failed", 0)

(* --------------------------- the capture session ----------------------- *)
\* the changes of recordingState in a step
Changed(from, to) == recordingState = from /\ recordingState' = to

LiveStreams == {s \in Sessions : sessions[s].live}
Recorders == {s \in Sessions : sessions[s].pc \in {"recording", "stopping"}}
Intervals == {s \in Sessions : sessions[s].ticking}

\* C22: whenever recordingState is not 'recording' no acquired MediaStream
\* has live tracks.
C22_DeviceReleased == recordingState # "recording" => LiveStreams = {}

\* C23: at no time is there more than one MediaStream with live tracks, more
\* than one MediaRecorder that has not stopped, or more than one duration
\* interval.
C23_OneSession ==
  /\ Cardinality(LiveStreams) <= 1
  /\ Cardinality(Recorders) <= 1
  /\ Cardinality(Intervals) <= 1

\* the saveVideo calls made and not yet settled
Saves(q) == {n \in DOMAIN q : q[n].op = "add"}

\* C24: onstop hands saveVideo the blob of the chunks gathered; when that
\* saveVideo succeeds the store has exactly one record more, with that blob
\* and uploaded = false, recordedVideoId is its id and the playback URL is
\* made for the same blob.
C24_FinalizationCreatesRecord ==
  [][/\ \A s \in Sessions : OnStop(s) =>
          /\ Cardinality(Saves(openq' \o txq')) = Cardinality(Saves(Pending)) + 1
          /\ \E n \in Saves(openq' \o txq') :
               (openq' \o txq')[n].blob = MakeBlob(chunks)
     /\ (SaveVideoDone /\ ~HasKey(store, Head(txq).id)) =>
          \E v \in store' :
            /\ v \notin store
            /\ store' = store \cup {v}
            /\ v.blob = Head(txq).blob
            /\ ~v.uploaded
            /\ recordedVideoId' = v.id
            /\ recordedVideoUrl' = {v.blob}
            /\ recordingState' = "stopped"]_vars

\* C24 witness: a recording with a non-empty payload is finalized: its record
\* is the only one, pending, and the id and the URL are those of the record.
C24_Witness ==
  /\ recordingState = "stopped"
  /\ \E v \in store :
       /\ store = {v}
       /\ v.blob # <<>>
       /\ ~v.uploaded
       /\ recordedVideoId = v.id
       /\ recordedVideoUrl = {v.blob}

\* C25: when saveVideo fails during finalization the error is 'Failed to
\* save video locally', the state is 'idle', no recordedVideoId and no
\* playback URL are exposed, the store is as it was and no saveVideo is made
\* again.
C25_SaveFailure ==
  [][(SaveVideoDone /\ HasKey(store, Head(txq).id)) =>
       /\ recorderError' = "Failed to save video locally"
       /\ recordingState' = "idle"
       /\ recordedVideoId' = NoId
       /\ recordedVideoUrl' = {}
       /\ store' = store
       /\ Cardinality(Saves(openq' \o txq')) = Cardinality(Saves(Pending)) - 1]_vars

\* C26: when getUserMedia rejects (permission denied, no device) the call
\* sets the error for that rejection and the state is 'idle'; the call holds
\* no stream and no interval, none is acquired or set in that step, the store
\* is as it was and no saveVideo is made.
C26_DeviceRefused ==
  [][\A s \in Sessions :
       (~Reload /\ sessions[s].pc = "asking" /\ sessions'[s].pc = "free") =>
         /\ recorderError' \in {"Camera access denied. Please grant permission.",
                                "No camera found on this device."}
         /\ recordingState' = "idle"
         /\ ~sessions'[s].live /\ ~sessions'[s].ticking
         /\ \A w \in Sessions : /\ sessions'[w].live = sessions[w].live
                                 /\ sessions'[w].ticking = sessions[w].ticking
         /\ streamRef' = streamRef /\ durationIntervalRef' = durationIntervalRef
         /\ store' = store
         /\ Saves(openq' \o txq') = Saves(Pending)]_vars

\* C26 witness: the device was refused for want of a camera: idle, error
\* set, no stream, no interval, no record.
C26_Witness ==
  /\ recorderError = "No camera found on this device."
  /\ recordingState = "idle"
  /\ \A s \in Sessions : sessions[s] = FreeSession
  /\ store = {}
  /\ events > 0

\* C27: duration increases only while the state is 'recording', by one at a
\* time; no tick raises it once the state is 'saving'.
C27_DurationWhileRecording ==
  [][duration' > duration =>
       /\ recordingState = "recording"
       /\ duration' = duration + 1]_vars


\* C28: every init that completes (the first, or one of several that the
\* operations started while db was null) leaves the records as they were and
\* db set, and the operation that awaited it goes on to its transaction; no
\* operation has a transaction while db is null.
C28_InitIdempotent ==
  /\ [](db = "null" => txq = <<>>)
  /\ [][OpenDone =>
          /\ store' = store
          /\ db' = "open"
          /\ openq' = Tail(openq)
          /\ Len(txq') = Len(txq) + 1
          /\ txq'[Len(txq')].op = Head(openq).op
          /\ txq'[Len(txq')].k = Head(openq).k]_vars

\* C28 witness: with records in the store, one init has completed and another
\* operation's init, started while db was null, is still to complete.
C28_Witness == db = "open" /\ openq # <<>> /\ store # {}

\* the ids of a getAllVideos result, in its order
Ids(list) == [n \in DOMAIN list |-> list[n].id]

\* C29: getAllVideos returns exactly the records in the store; a successful
\* saveVideo makes its result one longer, a deleteVideo of a present id one
\* shorter, and no other step changes the ids it returns or their order.
C29_GetAllExact ==
  [][/\ LoadDone => /\ Listed(storedVideos') = store
                    /\ Len(storedVideos') = Cardinality(store)
     /\ (SaveVideoDone /\ ~HasKey(store, Head(txq).id)) =>
          Len(GetAll(store')) = Len(GetAll(store)) + 1
     /\ (DeleteDone /\ HasKey(store, Head(txq).id)) =>
          Len(GetAll(store')) = Len(GetAll(store)) - 1
     /\ ~(SaveVideoDone \/ DeleteDone) =>
          Ids(GetAll(store')) = Ids(GetAll(store))]_vars

\* C30: getStorageEstimate never rejects.
C30_EstimateNeverRejects == estimate.pc # "rejected"

(* ------------------------------ the uploads ---------------------------- *)
\* the realUpload calls
RealCalls == {u \in Slots : ups[u].pc # "free" /\ ups[u].mode = "real"}

\* C31: realUpload never rejects: however its fetch settles the call comes to
\* its result; a failure has success = false and the message of the error
\* caught, and a call that has returned has emitted its one 'uploading' point
\* (50) and then the terminal notification of its result.
C31_RealUploadNeverRejects ==
  /\ [](\A u \in RealCalls :
          /\ ups[u].pc \in {"final", "mark", "load", "timer"} =>
               /\ ups[u].ok <=> ups[u].error = ""
               /\ ~ups[u].ok =>
                    ResultMessage(ups[u].ok, ups[u].error)[2] \in
                      {"HTTP status", "Failed to fetch"}
          /\ u \in Returned =>
               StrategyNotes(u) = <<RealNote,
                    Progress(IF ups[u].ok THEN "success" ELSE "failed",
                             IF ups[u].ok THEN FullProgress ELSE 0)>>)
  /\ [][\A u \in Slots :
          (~Reload /\ ups[u].pc = "fetch" /\ ups'[u].pc # "fetch") =>
            ups'[u].pc = "final"]_vars

\* C31 witness: a realUpload has returned after a network failure, with its
\* two notifications behind it, and handleUpload is at its timer.
C31_Witness ==
  \E u \in Returned :
    /\ ups[u].mode = "real" /\ ~ups[u].ok /\ ups[u].error = "Failed to fetch"
    /\ ups[u].pc = "timer"
    /\ ups[u].notes = <<StartNote, RealNote, Progress("failed", 0)>>
    /\ uploadProgress = Progress("failed", 0)

\* the handleUpload calls that have started and not returned
Running == {u \in Slots : ups[u].pc \in {"run", "fetch", "final", "mark", "load"}}

\* C32: no two handleUpload calls for the same id are running at the same
\* time.
C32_OneUploadPerId ==
  \A u \in Running, w \in Running : ups[u].id = ups[w].id => u = w

\* C33: whenever the page's upload status is not 'idle' it returns to 'idle'
\* with progress 0 (timers fire; the user's events are bounded, so no later
\* upload keeps it away for ever).
C33_StatusReturnsToIdle ==
  (uploadProgress.status # "idle") ~> (uploadProgress = IdleProgress)

\* the records of s other than the one with this id
Others(s, id) == {v \in s : v.id # id}

\* C34: deleteVideo(id) removes at most the record id; markAsUploaded(id)'s
\* write leaves every other record as it was and changes nothing of record id
\* but its uploaded flag; getVideo, getAllVideos and clearRecording change no
\* record.
C34_OnlyTheNamedRecord ==
  [][/\ DeleteDone =>
          /\ Others(store', Head(txq).id) = Others(store, Head(txq).id)
          /\ store' \subseteq store
     /\ MarkPutDone =>
          /\ Others(store', Head(txq).id) = Others(store, Head(txq).id)
          /\ \E v \in store :
               /\ v.id = Head(txq).id
               /\ store' = Others(store, v.id) \cup {[v EXCEPT !.uploaded = TRUE]}
     /\ (LoadDone \/ UploadReloadDone \/ ButtonLookupDone \/ MarkLookupDone
           \/ ClearRecording) => store' = store]_vars

====
